---- MODULE Spec2Model ----
(***************************************************************************)
(* The Prometheus exporter of opentelemetry-go: the collector's Collect,   *)
(* the per-kind translators, the attribute encoder getAttrs and the name   *)
(* sanitizer sanitizeName.                                                 *)
(*                                                                         *)
(* A Go string is a sequence of bytes (0..255).  Ranging over a string     *)
(* decodes UTF-8: DecodeRuneAt gives the rune and the number of bytes it   *)
(* took, as the language does.                                             *)
(***************************************************************************)
EXTENDS Integers, Sequences, FiniteSets, TLC

VARIABLES
    n,          \* sanitizeName: the argument of the call
    sanitized,  \* sanitizeName: whether it was called, and what the call did
    attrs,      \* getAttrs: the attribute.Set argument, sorted by key
    encoded,    \* getAttrs: the results of the calls made so far, in order
    cfg,        \* New: the config, [disableTargetInfo, withoutUnits]
    c,          \* the collector: [disableTargetInfo, withoutUnits, targetInfo]
    createTargetInfoOnce,   \* the sync.Once: [done, m], m the scrape inside Do (0: none)
    created,    \* the closure's targetInfo, err := c.createInfoMetric(...)
    constructions,  \* how many times createInfoMetric has been called
    reader,     \* per scrape: what c.reader.Collect returns to it, [metrics, err]
    pc,         \* per scrape: where it is in Collect
    pos,        \* per scrape: <<scope, metric>> of the two range loops
    log         \* per scrape: its sends on ch and its otel.Handle calls, in order

sanVars == <<n, sanitized>>
attrVars == <<attrs, encoded>>
colVars == <<cfg, c, createTargetInfoOnce, created, constructions, reader, pc, pos, log>>
vars == <<n, sanitized, attrs, encoded,
          cfg, c, createTargetInfoOnce, created, constructions, reader, pc, pos, log>>

(***************************************************************************)
(* Bounds of the model.                                                    *)
(***************************************************************************)
MaxLen == 3         \* bytes in an argument of sanitizeName
MaxAttrs == 3       \* attributes in an attribute.Set
NScrapes == 2       \* Collect calls in flight on one collector
MaxPoints == 2      \* data points of a Sum metric
MaxMetrics == 2     \* metrics of a snapshot
MaxCount == 4       \* the count of one histogram bucket

(***************************************************************************)
(* Strings.                                                                *)
(***************************************************************************)
\* '0', ':', '_', 'a', '.', the two bytes of U+00E9 (0xC3 0xA9), and 0xFF,
\* which is never part of well-formed UTF-8.  No byte drawn here leads a
\* three- or four-byte form.
Bytes == {48, 58, 95, 97, 46, 195, 169, 255}

\* utf8.RuneError, U+FFFD.
RuneError == 65533

Strings(len) == UNION {[1..k -> Bytes] : k \in 0..len}

\* `for i, c := range s` at byte offset i-1: <<c, width>>.  A byte that does
\* not start a well-formed sequence decodes to RuneError and advances by one.
DecodeRuneAt(s, i) ==
    LET b == s[i] IN
    IF b < 128 THEN <<b, 1>>
    ELSE IF b >= 194 /\ b <= 223 /\ i < Len(s) /\ s[i + 1] >= 128 /\ s[i + 1] <= 191
         THEN <<(b - 192) * 64 + (s[i + 1] - 128), 2>>
         ELSE <<RuneError, 1>>

\* utf8.RuneLen: the number of bytes that encode r, -1 if r is no valid rune.
RuneLen(r) ==
    IF r < 0 THEN -1
    ELSE IF r <= 127 THEN 1
    ELSE IF r <= 2047 THEN 2
    ELSE IF r >= 55296 /\ r <= 57343 THEN -1
    ELSE IF r <= 65535 THEN 3
    ELSE IF r <= 1114111 THEN 4
    ELSE -1

IsAsciiDigit(b) == b >= 48 /\ b <= 57

(***************************************************************************)
(* sanitizeName.                                                           *)
(***************************************************************************)
\* The closure `valid`; i is the byte offset of r (0 at the start).
valid(i, r) ==
    \/ (r >= 97 /\ r <= 122)
    \/ (r >= 65 /\ r <= 90)
    \/ r = 95
    \/ r = 58
    \/ (IsAsciiDigit(r) /\ i > 0)

\* The first loop's scan: the position (from 1) of the first rune that is
\* not valid, 0 when the loop ends without finding one.
RECURSIVE firstInvalid(_, _)
firstInvalid(s, i) ==
    IF i > Len(s) THEN 0
    ELSE LET d == DecodeRuneAt(s, i) IN
         IF valid(i - 1, d[1]) THEN firstInvalid(s, i + d[2]) ELSE i

\* The second loop: one byte written per rune of s, from position i on.
RECURSIVE writeRest(_, _)
writeRest(s, i) ==
    IF i > Len(s) THEN <<>>
    ELSE LET d == DecodeRuneAt(s, i) IN
         <<IF valid(1, d[1]) THEN d[1] ELSE 95>> \o writeRest(s, i + d[2])

\* leadingDigit gone wrong: the digit is replaced, not prefixed.
leadingDigitReplaced(s) == <<95>> \o writeRest(Tail(s), 1)

\* The branch `i == 0 && c >= '0' && c <= '9'`: the builder gets '_', n is
\* left whole, and the second loop then writes all of n after it.
leadingDigit(s) == <<95>> \o writeRest(s, 1)

\* The other branch: the valid prefix, '_', then n = n[i+width:], which
\* panics (slice bounds out of range) when i+width > len(n).  i is from 1.
replaceFrom(s, i) ==
    LET width == RuneLen(DecodeRuneAt(s, i)[1])
        k == (i - 1) + width
    IN  IF k > Len(s)
        THEN [panic |-> TRUE, s |-> <<>>]
        ELSE [panic |-> FALSE,
              s |-> SubSeq(s, 1, i - 1) \o <<95>> \o writeRest(SubSeq(s, k + 1, Len(s)), 1)]

sanitizeName(s) ==
    LET i == firstInvalid(s, 1) IN
    IF i = 0 THEN [panic |-> FALSE, s |-> s]
    ELSE IF i = 1 /\ IsAsciiDigit(DecodeRuneAt(s, 1)[1])
         THEN [panic |-> FALSE, s |-> leadingDigit(s)]
         ELSE replaceFrom(s, i)

(***************************************************************************)
(* getAttrs.                                                               *)
(***************************************************************************)
\* unicode.IsLetter and unicode.IsDigit on the runes the model's strings
\* decode to: ASCII, Latin-1 (up to U+00FF) and RuneError, which is neither.
IsLetter(r) ==
    \/ (r >= 65 /\ r <= 90) \/ (r >= 97 /\ r <= 122)
    \/ r = 170 \/ r = 181 \/ r = 186
    \/ (r >= 192 /\ r <= 214) \/ (r >= 216 /\ r <= 246) \/ (r >= 248 /\ r <= 255)

IsDigit(r) == r >= 48 /\ r <= 57

sanitizeRune(r) ==
    IF IsLetter(r) \/ IsDigit(r) \/ r = 58 \/ r = 95 THEN r ELSE 95

\* strings.Map(sanitizeRune, s): a rune the mapping keeps stays as its own
\* bytes, any other (an ill-formed byte decodes to RuneError) becomes '_'.
RECURSIVE stringsMap(_, _)
stringsMap(s, i) ==
    IF i > Len(s) THEN <<>>
    ELSE LET d == DecodeRuneAt(s, i) IN
         (IF sanitizeRune(d[1]) = d[1] /\ d[1] # RuneError
          THEN SubSeq(s, i, i + d[2] - 1)
          ELSE <<sanitizeRune(d[1])>>) \o stringsMap(s, i + d[2])

\* strings.Join(vals, ";").
RECURSIVE stringsJoin(_)
stringsJoin(vals) ==
    IF Len(vals) = 0 THEN <<>>
    ELSE IF Len(vals) = 1 THEN vals[1]
    ELSE vals[1] \o <<59>> \o stringsJoin(Tail(vals))

\* putValue gone wrong: a colliding key keeps only the latest value.
putValueOverwrite(m, key, v) ==
    IF key \in DOMAIN m THEN [m EXCEPT ![key] = <<v>>] ELSE m @@ (key :> <<v>>)

\* The body of the first loop: keysMap[key] gets v, appended when the
\* sanitized key is already there.
putValue(m, key, v) ==
    IF key \in DOMAIN m THEN [m EXCEPT ![key] = Append(@, v)] ELSE m @@ (key :> <<v>>)

\* The first loop, over the set's iterator (key order), from attribute i on.
RECURSIVE keysMapFrom(_, _, _)
keysMapFrom(as, i, m) ==
    IF i > Len(as) THEN m
    ELSE keysMapFrom(as, i + 1, putValue(m, stringsMap(as[i].Key, 1), as[i].Emit))

\* The less function handed to sort.Slice: it compares the indices.
less(i, j) == i < j

\* sort.Slice on a slice of at most 12 elements is an insertion sort driven
\* by less: data[j] moves down while less(j, j-1).
RECURSIVE insertDown(_, _)
insertDown(data, j) ==
    IF j > 1 /\ less(j, j - 1)
    THEN insertDown([data EXCEPT ![j] = data[j - 1], ![j - 1] = data[j]], j - 1)
    ELSE data

RECURSIVE sortSlice(_, _)
sortSlice(data, i) ==
    IF i > Len(data) THEN data ELSE sortSlice(insertDown(data, i), i + 1)

\* The orders in which `range keysMap` may visit the map's keys: Go leaves
\* the order of a map's iteration unspecified, and varies it between loops.
mapOrders(m) ==
    {o \in [1..Cardinality(DOMAIN m) -> DOMAIN m] :
        \A i, j \in DOMAIN o : i # j => o[i] # o[j]}

\* getAttrs, with the map visited in the given order.
getAttrs(as, order) ==
    LET keysMap == keysMapFrom(as, 1, <<>>) IN
    [keys   |-> order,
     values |-> [i \in DOMAIN order |-> stringsJoin(sortSlice(keysMap[order[i]], 2))]]

\* The empty map is the empty function, as <<>> is.
getAttrsResults(as) ==
    {getAttrs(as, o) : o \in mapOrders(keysMapFrom(as, 1, <<>>))}

(***************************************************************************)
(* Attribute sets: keys unique and sorted, as attribute.NewSet leaves      *)
(* them; each entry holds the key and the text Value.Emit() returns.       *)
(***************************************************************************)
\* "0a", "a-b", "a.b", "a_b", "c", U+00E9 in byte order.
AttrKeys == <<<<48, 97>>, <<97, 45, 98>>, <<97, 46, 98>>, <<97, 95, 98>>, <<99>>, <<195, 169>>>>

\* "x", "y".
AttrValues == {<<120>>, <<121>>}

\* The increasing index sequences of at most MaxAttrs keys.
KeyChoices ==
    {ks \in UNION {[1..k -> DOMAIN AttrKeys] : k \in 0..MaxAttrs} :
        \A i \in DOMAIN ks : i > 1 => ks[i - 1] < ks[i]}

AttrSets ==
    UNION {{[i \in DOMAIN ks |-> [Key |-> AttrKeys[ks[i]], Emit |-> v[i]]] :
                v \in [DOMAIN ks -> AttrValues]} : ks \in KeyChoices}

(***************************************************************************)
(* The Prometheus client's constructors, as far as they accept or reject:  *)
(* NewDesc rejects a metric name or a label name outside its grammar, a    *)
(* label name that starts "__", and a repeated label name; NewConstMetric  *)
(* and NewConstHistogram return the desc's error, or one for a label value *)
(* count that differs or a value that is not UTF-8.                        *)
(***************************************************************************)
IsAsciiLetter(b) == (b >= 97 /\ b <= 122) \/ (b >= 65 /\ b <= 90)

IsValidMetricName(name) ==
    /\ Len(name) > 0
    /\ \A i \in DOMAIN name :
          IsAsciiLetter(name[i]) \/ name[i] = 95 \/ name[i] = 58 \/ (IsAsciiDigit(name[i]) /\ i > 1)

checkLabelName(l) ==
    /\ Len(l) > 0
    /\ \A i \in DOMAIN l : IsAsciiLetter(l[i]) \/ l[i] = 95 \/ (IsAsciiDigit(l[i]) /\ i > 1)
    /\ ~(Len(l) >= 2 /\ l[1] = 95 /\ l[2] = 95)

RECURSIVE validUTF8(_, _)
validUTF8(s, i) ==
    IF i > Len(s) THEN TRUE
    ELSE LET d == DecodeRuneAt(s, i) IN
         ~(d[1] = RuneError /\ d[2] = 1) /\ validUTF8(s, i + d[2])

constructionRejected(name, keys, values) ==
    \/ ~IsValidMetricName(name)
    \/ \E i \in DOMAIN keys : ~checkLabelName(keys[i])
    \/ \E i, j \in DOMAIN keys : i # j /\ keys[i] = keys[j]
    \/ Len(keys) # Len(values)
    \/ \E i \in DOMAIN values : ~validUTF8(values[i], 1)

(***************************************************************************)
(* What a scrape does that the outside sees: a metric sent on ch, or an    *)
(* error given to otel.Handle.  src is <<scope, metric, data point>> of    *)
(* the data point at hand, <<0, 0, 0>> outside the range loops.            *)
(***************************************************************************)
NoMetric ==
    [name |-> <<>>, help |-> "", kind |-> "nil", keys |-> <<>>, values |-> <<>>,
     value |-> 0, count |-> 0, sum |-> 0, buckets |-> <<>>]

emitEv(rec, src) == [ev |-> "emit", rec |-> rec, err |-> "nil", src |-> src]
handleEv(err, src) == [ev |-> "handle", rec |-> NoMetric, err |-> err, src |-> src]

\* prometheus.NewConstMetric(desc, valueType, value, values...) and the
\* `if err != nil { otel.Handle(err); continue }; ch <- m` after it.
constMetric(name, help, valueType, value, a) ==
    LET err == constructionRejected(name, a.keys, a.values) IN
    [err |-> err,
     metric |-> IF err THEN NoMetric
                ELSE [name |-> name, help |-> help, kind |-> valueType, keys |-> a.keys,
                      values |-> a.values, value |-> value, count |-> 0, sum |-> 0,
                      buckets |-> <<>>]]

handleOrSend(r, src) ==
    IF r.err THEN handleEv("rejected", src) ELSE emitEv(r.metric, src)

(***************************************************************************)
(* getName and the unit suffixes.                                          *)
(***************************************************************************)
\* "_ratio", "_bytes", "_milliseconds", keyed by the unit's constant.
unitSuffixes ==
    [Dimensionless |-> <<95, 114, 97, 116, 105, 111>>,
     Bytes         |-> <<95, 98, 121, 116, 101, 115>>,
     Milliseconds  |-> <<95, 109, 105, 108, 108, 105, 115, 101, 99, 111, 110, 100, 115>>]

\* "_total".
counterSuffix == <<95, 116, 111, 116, 97, 108>>

\* "target_info".
targetInfoMetricName == <<116, 97, 114, 103, 101, 116, 95, 105, 110, 102, 111>>

targetInfoDescription == "Target metadata"

getName(withoutUnits, m) ==
    LET r == sanitizeName(m.Name) IN
    IF r.panic \/ withoutUnits THEN r
    ELSE IF m.Unit \in DOMAIN unitSuffixes
         THEN [panic |-> FALSE, s |-> r.s \o unitSuffixes[m.Unit]]
         ELSE r

(***************************************************************************)
(* addHistogramMetric, addSumMetric, addGaugeMetric: the sets of event     *)
(* sequences a call may produce (getAttrs is free in its order).           *)
(***************************************************************************)
\* bucketsFrom gone wrong: each bucket holds its own count, not the running one.
bucketsFromOwn(dp, i, cumulativeCount, buckets) ==
    [b \in {dp.Bounds[k] : k \in DOMAIN dp.Bounds} |->
        dp.BucketCounts[CHOOSE k \in DOMAIN dp.Bounds : dp.Bounds[k] = b]]

\* The loop over dp.Bounds from index i on.  The counts are uint64; the data
\* point's Count, a uint64 too, is their total, so no partial sum wraps.
RECURSIVE bucketsFrom(_, _, _, _)
bucketsFrom(dp, i, cumulativeCount, buckets) ==
    IF i > Len(dp.Bounds) THEN buckets
    ELSE LET cc == cumulativeCount + dp.BucketCounts[i]
             bound == dp.Bounds[i]
         IN  bucketsFrom(dp, i + 1, cc,
                         [b \in DOMAIN buckets \cup {bound} |->
                             IF b = bound THEN cc ELSE buckets[b]])

constHistogram(name, help, dp, a) ==
    LET err == constructionRejected(name, a.keys, a.values) IN
    [err |-> err,
     metric |-> IF err THEN NoMetric
                ELSE [name |-> name, help |-> help, kind |-> "Histogram", keys |-> a.keys,
                      values |-> a.values, value |-> 0, count |-> dp.Count, sum |-> dp.Sum,
                      buckets |-> bucketsFrom(dp, 1, 0, <<>>)]]

RECURSIVE histogramPoints(_, _, _, _, _)
histogramPoints(dps, i, m, name, src) ==
    IF i > Len(dps) THEN {<<>>}
    ELSE {<<handleOrSend(constHistogram(name, m.Description, dps[i], a), src \o <<i>>)>> \o rest :
            a \in getAttrsResults(dps[i].Attributes),
            rest \in histogramPoints(dps, i + 1, m, name, src)}

addHistogramMetric(histogram, m, name, src) ==
    histogramPoints(histogram.DataPoints, 1, m, name, src)

\* The loop shared by addSumMetric and addGaugeMetric, from data point i on.
RECURSIVE scalarPoints(_, _, _, _, _, _)
scalarPoints(dps, i, m, name, valueType, src) ==
    IF i > Len(dps) THEN {<<>>}
    ELSE {<<handleOrSend(constMetric(name, m.Description, valueType, dps[i].Value, a),
                         src \o <<i>>)>> \o rest :
            a \in getAttrsResults(dps[i].Attributes),
            rest \in scalarPoints(dps, i + 1, m, name, valueType, src)}

sumValueType(sum) == IF ~sum.IsMonotonic THEN "GaugeValue" ELSE "CounterValue"

\* sumName gone wrong: the suffix is added to every Sum.
sumNameAlways(sum, name) == name \o counterSuffix

sumName(sum, name) == IF sum.IsMonotonic THEN name \o counterSuffix ELSE name

addSumMetric(sum, m, name, src) ==
    scalarPoints(sum.DataPoints, 1, m, sumName(sum, name), sumValueType(sum), src)

addGaugeMetric(gauge, m, name, src) ==
    scalarPoints(gauge.DataPoints, 1, m, name, "GaugeValue", src)

\* The type switch of Collect on m.Data: [panic, runs], runs the event
\* sequences the case may produce.  getName is an argument of the add call,
\* so it runs, and may panic, only when a case matches.
switchData(withoutUnits, m, src) ==
    LET t == m.Data.type
        name == getName(withoutUnits, m)
    IN  IF t \notin {"Histogram", "Sum[int64]", "Sum[float64]", "Gauge[int64]", "Gauge[float64]"}
        THEN [panic |-> FALSE, runs |-> {<<>>}]
        ELSE IF name.panic THEN [panic |-> TRUE, runs |-> {<<>>}]
        ELSE [panic |-> FALSE,
              runs |-> IF t = "Histogram" THEN addHistogramMetric(m.Data, m, name.s, src)
                       ELSE IF t \in {"Sum[int64]", "Sum[float64]"}
                            THEN addSumMetric(m.Data, m, name.s, src)
                            ELSE addGaugeMetric(m.Data, m, name.s, src)]

\* createInfoMetric; res.Set() of a nil resource is the empty set.
createInfoMetric(name, description, res) ==
    {constMetric(name, description, "GaugeValue", 1, a) : a \in getAttrsResults(res)}

(***************************************************************************)
(* Collect, one step at a time.  A panic in one scrape ends the process.   *)
(***************************************************************************)
NoPanic == \A q \in DOMAIN pc : pc[q] # "panic"

scopeMetrics(p) == reader[p].metrics.ScopeMetrics

\* afterCollect gone wrong: no early return.
afterCollectNoReturn(err) == "once"

\* `if err == metric.ErrReaderNotRegistered { return }`.
afterCollect(err) == IF err = "ErrReaderNotRegistered" THEN "done" ELSE "once"

\* metrics, err := c.reader.Collect(...); if err != nil { otel.Handle(err); ... }
ReaderCollect(p) ==
    /\ pc[p] = "start" /\ NoPanic
    /\ LET err == reader[p].err IN
       /\ log' = IF err # "nil"
                 THEN [log EXCEPT ![p] = Append(@, handleEv(err, <<0, 0, 0>>))]
                 ELSE log
       /\ pc' = [pc EXCEPT ![p] = afterCollect(err)]
    /\ UNCHANGED <<cfg, c, createTargetInfoOnce, created, constructions, reader, pos>>
    /\ UNCHANGED <<sanVars, attrVars>>

\* onceDone gone wrong: the Once forgets that it ran.
onceNeverDone(o) == FALSE

onceDone(o) == o.done

\* c.createTargetInfoOnce.Do: pass when done; else take the Once's mutex and
\* run the function; wait while another scrape is inside.
OnceDo(p) ==
    /\ pc[p] = "once" /\ NoPanic
    /\ IF onceDone(createTargetInfoOnce)
       THEN /\ pc' = [pc EXCEPT ![p] = "emit"]
            /\ UNCHANGED createTargetInfoOnce
       ELSE /\ createTargetInfoOnce.m = 0
            /\ createTargetInfoOnce' = [createTargetInfoOnce EXCEPT !.m = p]
            /\ pc' = [pc EXCEPT ![p] = "create"]
    /\ UNCHANGED <<cfg, c, created, constructions, reader, pos, log>>
    /\ UNCHANGED <<sanVars, attrVars>>

\* targetInfo, err := c.createInfoMetric(targetInfoMetricName, ...)
CreateInfo(p) ==
    /\ pc[p] = "create" /\ NoPanic
    /\ \E r \in createInfoMetric(targetInfoMetricName, targetInfoDescription,
                                reader[p].metrics.Resource) : created' = r
    /\ constructions' = constructions + 1
    /\ pc' = [pc EXCEPT ![p] = "body"]
    /\ UNCHANGED <<cfg, c, createTargetInfoOnce, reader, pos, log>>
    /\ UNCHANGED <<sanVars, attrVars>>

\* if err != nil { otel.Handle(err); c.disableTargetInfo = true }; c.targetInfo = targetInfo
OnceBody(p) ==
    /\ pc[p] = "body" /\ NoPanic
    /\ IF created.err
       THEN /\ log' = [log EXCEPT ![p] = Append(@, handleEv("rejected", <<0, 0, 0>>))]
            /\ c' = [c EXCEPT !.disableTargetInfo = TRUE, !.targetInfo = created.metric]
       ELSE /\ log' = log
            /\ c' = [c EXCEPT !.targetInfo = created.metric]
    /\ pc' = [pc EXCEPT ![p] = "unlock"]
    /\ UNCHANGED <<cfg, createTargetInfoOnce, created, constructions, reader, pos>>
    /\ UNCHANGED <<sanVars, attrVars>>

\* Do returns: done is stored and the mutex released.
OnceReturn(p) ==
    /\ pc[p] = "unlock" /\ NoPanic
    /\ createTargetInfoOnce' = [done |-> TRUE, m |-> 0]
    /\ pc' = [pc EXCEPT ![p] = "emit"]
    /\ UNCHANGED <<cfg, c, created, constructions, reader, pos, log>>
    /\ UNCHANGED <<sanVars, attrVars>>

\* if !c.disableTargetInfo { ch <- c.targetInfo }
EmitTargetInfo(p) ==
    /\ pc[p] = "emit" /\ NoPanic
    /\ log' = IF ~c.disableTargetInfo
              THEN [log EXCEPT ![p] = Append(@, emitEv(c.targetInfo, <<0, 0, 0>>))]
              ELSE log
    /\ pc' = [pc EXCEPT ![p] = "range"]
    /\ UNCHANGED <<cfg, c, createTargetInfoOnce, created, constructions, reader, pos>>
    /\ UNCHANGED <<sanVars, attrVars>>

\* The inner range is over: on to the next scopeMetrics.
RangeScope(p) ==
    /\ pc[p] = "range" /\ NoPanic
    /\ pos[p][1] <= Len(scopeMetrics(p))
    /\ pos[p][2] > Len(scopeMetrics(p)[pos[p][1]].Metrics)
    /\ pos' = [pos EXCEPT ![p] = <<pos[p][1] + 1, 1>>]
    /\ UNCHANGED <<cfg, c, createTargetInfoOnce, created, constructions, reader, pc, log>>
    /\ UNCHANGED <<sanVars, attrVars>>

\* One pass of the inner loop's body: the switch on m.Data.
RangeMetric(p) ==
    /\ pc[p] = "range" /\ NoPanic
    /\ pos[p][1] <= Len(scopeMetrics(p))
    /\ pos[p][2] <= Len(scopeMetrics(p)[pos[p][1]].Metrics)
    /\ LET m == scopeMetrics(p)[pos[p][1]].Metrics[pos[p][2]]
           r == switchData(c.withoutUnits, m, pos[p])
       IN  IF r.panic
           THEN /\ pc' = [pc EXCEPT ![p] = "panic"]
                /\ UNCHANGED <<pos, log>>
           ELSE /\ \E run \in r.runs : log' = [log EXCEPT ![p] = @ \o run]
                /\ pos' = [pos EXCEPT ![p] = <<pos[p][1], pos[p][2] + 1>>]
                /\ UNCHANGED pc
    /\ UNCHANGED <<cfg, c, createTargetInfoOnce, created, constructions, reader>>
    /\ UNCHANGED <<sanVars, attrVars>>

\* The outer range is over: Collect returns.
Return(p) ==
    /\ pc[p] = "range" /\ NoPanic
    /\ pos[p][1] > Len(scopeMetrics(p))
    /\ pc' = [pc EXCEPT ![p] = "done"]
    /\ UNCHANGED <<cfg, c, createTargetInfoOnce, created, constructions, reader, pos, log>>
    /\ UNCHANGED <<sanVars, attrVars>>

NextCollect ==
    \/ \E p \in DOMAIN pc : ReaderCollect(p)
    \/ \E p \in DOMAIN pc : OnceDo(p)
    \/ \E p \in DOMAIN pc : CreateInfo(p)
    \/ \E p \in DOMAIN pc : OnceBody(p)
    \/ \E p \in DOMAIN pc : OnceReturn(p)
    \/ \E p \in DOMAIN pc : EmitTargetInfo(p)
    \/ \E p \in DOMAIN pc : RangeScope(p)
    \/ \E p \in DOMAIN pc : RangeMetric(p)
    \/ \E p \in DOMAIN pc : Return(p)

(***************************************************************************)
(* What the reader may return.                                             *)
(***************************************************************************)
\* {"a-b": "x", "a.b": "y", "c": "x"}: two keys collide, every label is valid.
GoodAttrs ==
    <<[Key |-> <<97, 45, 98>>, Emit |-> <<120>>], [Key |-> <<97, 46, 98>>, Emit |-> <<121>>],
      [Key |-> <<99>>, Emit |-> <<120>>]>>

\* {"c": "y"}.
OneKeyAttrs == <<[Key |-> <<99>>, Emit |-> <<121>>]>>

\* {"0a": "x"}: the key is kept as it is, and is no valid label name.
BadAttrs == <<[Key |-> <<48, 97>>, Emit |-> <<120>>]>>

scalarPoint(a) ==
    [Attributes |-> a, Value |-> 7, Count |-> 0, Sum |-> 0, Bounds |-> <<>>,
     BucketCounts |-> <<>>]

RECURSIVE total(_)
total(counts) == IF Len(counts) = 0 THEN 0 ELSE counts[1] + total(Tail(counts))

histogramPoint(a, bounds, counts) ==
    [Attributes |-> a, Value |-> 0, Count |-> total(counts), Sum |-> 0, Bounds |-> bounds,
     BucketCounts |-> counts]

metric(name, unit, type, isMonotonic, dps) ==
    [Name |-> name, Description |-> "help", Unit |-> unit,
     Data |-> [type |-> type, IsMonotonic |-> isMonotonic, DataPoints |-> dps]]

\* "requests", "0a", "a" then U+00E9, "", "a" then 0xFF.
NameSamples ==
    {<<114, 101, 113, 117, 101, 115, 116, 115>>, <<48, 97>>, <<97, 195, 169>>, <<>>, <<97, 255>>}

\* The three units with a suffix, and the unspecified unit.
UnitSamples == {"Dimensionless", "Bytes", "Milliseconds", ""}

PointLists == UNION {[1..k -> {scalarPoint(GoodAttrs), scalarPoint(BadAttrs)}] : k \in 0..MaxPoints}

SumMetrics ==
    {metric(name, unit, type, mono, dps) :
        name \in NameSamples, unit \in UnitSamples, type \in {"Sum[int64]", "Sum[float64]"},
        mono \in BOOLEAN, dps \in PointLists}

\* Bounds as the SDK hands them over: sorted; <<1, 1>> is sorted, not strictly.
HistogramBounds ==
    {<<>>, <<1>>, <<5>>, <<10>>, <<1, 5>>, <<1, 10>>, <<5, 10>>, <<1, 5, 10>>, <<1, 1>>}

HistogramMetrics ==
    UNION {{metric(<<104>>, "", "Histogram", FALSE,
                   <<histogramPoint(OneKeyAttrs, bounds, counts)>>) :
                counts \in [1..Len(bounds) + 1 -> 0..MaxCount]} : bounds \in HistogramBounds}

\* Metrics of every kind, well formed and not, to mix in one snapshot.
MixedMetrics ==
    {metric(<<114, 113>>, "", "Sum[int64]", TRUE,
            <<scalarPoint(GoodAttrs), scalarPoint(BadAttrs)>>),
     metric(<<103>>, "Bytes", "Gauge[float64]", FALSE, <<scalarPoint(BadAttrs)>>),
     metric(<<104>>, "", "Histogram", FALSE,
            <<histogramPoint(BadAttrs, <<1, 5>>, <<1, 0, 2>>),
              histogramPoint(GoodAttrs, <<1, 5>>, <<1, 0, 2>>)>>),
     metric(<<111>>, "", "other", FALSE, <<scalarPoint(GoodAttrs)>>),
     metric(<<97, 255>>, "", "Gauge[int64]", FALSE, <<scalarPoint(GoodAttrs)>>),
     metric(<<>>, "", "Sum[float64]", FALSE,
            <<scalarPoint(GoodAttrs), scalarPoint(GoodAttrs)>>)}

MetricLists == UNION {[1..k -> MixedMetrics] : k \in 0..MaxMetrics}

\* One scope, or two, with at most MaxMetrics metrics in all.
MixedScopeLists ==
    {<<[Metrics |-> a]>> : a \in MetricLists}
    \cup {<<[Metrics |-> ab[1]], [Metrics |-> ab[2]]>> :
            ab \in {x \in MetricLists \X MetricLists : Len(x[1]) + Len(x[2]) <= MaxMetrics}}

\* {"a-b": "x", "c": "y"} and {"0a": "x"}: a resource the target accepts, one it rejects.
GoodResource == <<[Key |-> <<97, 45, 98>>, Emit |-> <<120>>], [Key |-> <<99>>, Emit |-> <<121>>]>>
BadResource == BadAttrs

snapshot(res, sm) == [err |-> "nil", metrics |-> [Resource |-> res, ScopeMetrics |-> sm]]

\* An error comes with the zero ResourceMetrics: a nil Resource, no scopes.
failure(err) == [err |-> err, metrics |-> [Resource |-> <<>>, ScopeMetrics |-> <<>>]]

ScrapeResults ==
    {snapshot(OneKeyAttrs, <<[Metrics |-> <<m>>]>>) : m \in SumMetrics \cup HistogramMetrics}
    \cup {snapshot(OneKeyAttrs, sm) : sm \in MixedScopeLists}

CollectResults(res) ==
    {failure("ErrReaderNotRegistered"), failure("ErrReaderShutdown"),
     snapshot(res, <<>>),
     snapshot(res, <<[Metrics |-> <<metric(<<103>>, "", "Gauge[int64]", FALSE,
                                           <<scalarPoint(GoodAttrs)>>)>>]>>)}

(***************************************************************************)
(* New, and the scrapes.                                                   *)
(***************************************************************************)
SanIdle == n = <<>> /\ sanitized = [called |-> FALSE, panic |-> FALSE, s |-> <<>>]
AttrsIdle == attrs = <<>> /\ encoded = <<>>

\* The collector as New leaves it, for the given scrapes.
New(scrapes) ==
    /\ c = [disableTargetInfo |-> cfg.disableTargetInfo, withoutUnits |-> cfg.withoutUnits,
            targetInfo |-> NoMetric]
    /\ createTargetInfoOnce = [done |-> FALSE, m |-> 0]
    /\ created = [err |-> FALSE, metric |-> NoMetric]
    /\ constructions = 0
    /\ pc = [p \in scrapes |-> "start"]
    /\ pos = [p \in scrapes |-> <<1, 1>>]
    /\ log = [p \in scrapes |-> <<>>]

ColIdle ==
    /\ cfg = [disableTargetInfo |-> FALSE, withoutUnits |-> FALSE]
    /\ reader = <<>>
    /\ New({})

\* NScrapes scrapes, concurrent or one after another, on one collector.
InitCollect ==
    /\ cfg \in [disableTargetInfo : BOOLEAN, withoutUnits : {FALSE}]
    /\ \E res \in {GoodResource, BadResource} : reader \in [1..NScrapes -> CollectResults(res)]
    /\ New(1..NScrapes)
    /\ SanIdle /\ AttrsIdle

\* One scrape of one snapshot.
InitScrape ==
    /\ cfg \in [disableTargetInfo : {FALSE}, withoutUnits : BOOLEAN]
    /\ reader \in [{1} -> ScrapeResults]
    /\ New({1})
    /\ SanIdle /\ AttrsIdle

SpecCollect == InitCollect /\ [][NextCollect]_vars

SpecScrape == InitScrape /\ [][NextCollect]_vars

(***************************************************************************)
(* Calls of getAttrs on one attribute set.                                 *)
(***************************************************************************)
InitAttrs ==
    /\ attrs \in AttrSets
    /\ encoded = <<>>
    /\ SanIdle /\ ColIdle

\* Two calls are enough to compare one call with another.
GetAttrsCall ==
    /\ Len(encoded) < 2
    /\ \E r \in getAttrsResults(attrs) : encoded' = Append(encoded, r)
    /\ UNCHANGED <<attrs, sanVars, colVars>>

(***************************************************************************)
(* One call of sanitizeName on any argument of at most MaxLen bytes.       *)
(***************************************************************************)
NotCalled == [called |-> FALSE, panic |-> FALSE, s |-> <<>>]

InitSan ==
    /\ n \in Strings(MaxLen)
    /\ sanitized = NotCalled
    /\ AttrsIdle /\ ColIdle

SanitizeCall ==
    /\ ~sanitized.called
    /\ LET r == sanitizeName(n) IN
       sanitized' = [called |-> TRUE, panic |-> r.panic, s |-> r.s]
    /\ UNCHANGED <<n, attrVars, colVars>>

NextSan == SanitizeCall

SpecSan == InitSan /\ [][NextSan]_vars

NextAttrs == GetAttrsCall

SpecAttrs == InitAttrs /\ [][NextAttrs]_vars

(***************************************************************************)
(* The claims.                                                             *)
(***************************************************************************)
NoSrc == <<0, 0, 0>>

NotRegistered(p) == reader[p].err = "ErrReaderNotRegistered"

\* The scrape is past c.createTargetInfoOnce.Do.
PastGuard(p) == pc[p] \in {"emit", "range", "panic"} \/ (pc[p] = "done" /\ ~NotRegistered(p))

\* The scrape is past `if !c.disableTargetInfo { ch <- c.targetInfo }`.
PastEmit(p) == pc[p] \in {"range", "panic"} \/ (pc[p] = "done" /\ ~NotRegistered(p))

\* The identity records the scrape has sent.
IdentitySent(p) == SelectSeq(log[p], LAMBDA e : e.ev = "emit" /\ e.src = NoSrc)

\* The identity construction failures given to the fault handler, by anyone.
IdentityFaults ==
    UNION {{<<p, i>> : i \in {j \in DOMAIN log[p] :
                                 /\ log[p][j].ev = "handle"
                                 /\ log[p][j].err = "rejected"
                                 /\ log[p][j].src = NoSrc}} : p \in DOMAIN log}

ConstructedOnceAndAwaited ==
    /\ constructions <= 1
    /\ \A p \in DOMAIN pc : PastGuard(p) => createTargetInfoOnce.done /\ constructions = 1
    /\ ~createTargetInfoOnce.done =>
          IdentityFaults = {} \/ \E p \in DOMAIN pc : pc[p] = "unlock"
    /\ ~createTargetInfoOnce.done => \A p \in DOMAIN pc : IdentitySent(p) = <<>>

EveryScrapeSendsCached ==
    /\ ~created.err
    /\ IdentityFaults = {}
    /\ c.targetInfo = created.metric /\ created.metric # NoMetric
    /\ \A p \in DOMAIN pc :
          IdentitySent(p) = IF PastEmit(p) THEN <<emitEv(created.metric, NoSrc)>> ELSE <<>>

FailureLatched ==
    /\ created.err
    /\ Cardinality(IdentityFaults) = 1
    /\ c.disableTargetInfo
    /\ \A p \in DOMAIN pc : IdentitySent(p) = <<>>

DisabledByConfig ==
    /\ ~created.err /\ cfg.disableTargetInfo
    /\ IdentityFaults = {}
    /\ c.disableTargetInfo
    /\ \A p \in DOMAIN pc : IdentitySent(p) = <<>>

\* C1, as stated: the identity record is constructed exactly once, a scrape
\* passes the guard only after that construction has finished, and then
\* either every scrape sends the identical cached record, or the
\* construction failed, was reported once, and no scrape ever sends one.
C1_OnceThenCachedOrLatched ==
    (\A p \in DOMAIN pc : reader[p].err = "nil") =>
        /\ ConstructedOnceAndAwaited
        /\ createTargetInfoOnce.done => EveryScrapeSendsCached \/ FailureLatched

\* C1, amended: as above, with the third outcome the code has: on a
\* collector configured with disableTargetInfo the construction still runs
\* once and, when it succeeds, no scrape sends the record.
C1_OnceThenCachedLatchedOrDisabled ==
    /\ ConstructedOnceAndAwaited
    /\ createTargetInfoOnce.done =>
          \/ (~cfg.disableTargetInfo /\ EveryScrapeSendsCached)
          \/ FailureLatched
          \/ DisabledByConfig

\* Two scrapes got a snapshot and both have sent the one cached record.
C1_Witness ==
    \E p, q \in DOMAIN pc :
        /\ p # q /\ reader[p].err = "nil" /\ reader[q].err = "nil"
        /\ pc[p] = "done" /\ pc[q] = "done"
        /\ constructions = 1
        /\ IdentitySent(p) # <<>> /\ IdentitySent(p) = IdentitySent(q)

\* C2, as stated: a scrape whose reader returns "not yet registered" sends
\* nothing and hands nothing to the fault handler.
C2_NotRegisteredIsSilent ==
    \A p \in DOMAIN pc : NotRegistered(p) /\ pc[p] = "done" => log[p] = <<>>

\* C2, amended: such a scrape returns at once, before the guard, and sends
\* no record; the error is given to the fault handler, exactly once.
C2_NotRegisteredHandledOnce ==
    \A p \in DOMAIN pc :
        NotRegistered(p) /\ pc[p] # "start" =>
            /\ pc[p] = "done"
            /\ log[p] = <<handleEv("ErrReaderNotRegistered", NoSrc)>>

\* A scrape was told "not yet registered" and has returned, while another
\* has run the construction.
C2_Witness ==
    \E p \in DOMAIN pc : NotRegistered(p) /\ pc[p] = "done" /\ createTargetInfoOnce.done

ZeroMetrics(p) ==
    \A i \in DOMAIN scopeMetrics(p) : scopeMetrics(p)[i].Metrics = <<>>

\* C3: with disableTargetInfo configured, a scrape of a snapshot with zero
\* metrics, whatever its resource, sends nothing and hands nothing to the
\* fault handler.
C3_DisabledIsSilent ==
    cfg.disableTargetInfo =>
        \A p \in DOMAIN pc :
            reader[p].err = "nil" /\ ZeroMetrics(p) /\ pc[p] = "done" => log[p] = <<>>

AllAscii(s) == \A i \in DOMAIN s : s[i] < 128

LeadingDigit(s) == Len(s) > 0 /\ s[1] >= 48 /\ s[1] <= 57

\* C4, as stated: a leading ASCII digit is replaced by one '_': the output
\* starts with '_', the digit is gone, an all-ASCII input keeps its length,
\* and "0abc" gives "_abc".
C4_LeadingDigitReplaced ==
    sanitized.called /\ LeadingDigit(n) =>
          /\ sanitizeName(<<48, 97, 98, 99>>).s = <<95, 97, 98, 99>>
          /\ ~sanitized.panic
          /\ sanitized.s[1] = 95
          /\ AllAscii(n) => Len(sanitized.s) = Len(n)
          /\ \A i \in DOMAIN sanitized.s : i <= 2 => sanitized.s[i] # n[1]

\* C4, amended: a leading ASCII digit is prefixed with one '_' and kept:
\* the output is '_', the digit, and the rest; an all-ASCII input grows by
\* one; "0abc" gives "_0abc".
C4_LeadingDigitPrefixed ==
    sanitized.called /\ LeadingDigit(n) =>
          /\ sanitizeName(<<48, 97, 98, 99>>) = [panic |-> FALSE, s |-> <<95, 48, 97, 98, 99>>]
          /\ ~sanitized.panic
          /\ Len(sanitized.s) >= 2
          /\ sanitized.s[1] = 95
          /\ sanitized.s[2] = n[1]
          /\ AllAscii(n) => Len(sanitized.s) = Len(n) + 1

\* sanitizeName was called on a digit, '.', and one more ASCII character.
C4_Witness ==
    sanitized.called /\ LeadingDigit(n) /\ Len(n) = MaxLen /\ AllAscii(n) /\ n[2] = 46

InGrammar(s) ==
    \A i \in DOMAIN s :
        \/ (s[i] >= 97 /\ s[i] <= 122) \/ (s[i] >= 65 /\ s[i] <= 90)
        \/ s[i] = 95 \/ s[i] = 58
        \/ (s[i] >= 48 /\ s[i] <= 57 /\ i > 1)

\* C5: sanitizeName returns for every input, what it returns is in the
\* grammar (letters, digits, '_', ':', no digit first), and an input in
\* the grammar is returned unchanged.
C5_TotalAndInGrammar ==
    sanitized.called =>
        /\ ~sanitized.panic
        /\ InGrammar(sanitized.s)
        /\ InGrammar(n) => sanitized.s = n

\* C6: two calls of getAttrs on one attribute set return the same label
\* names and the same label values, in the same order.
C6_SameSequences ==
    Len(encoded) = 2 => encoded[1] = encoded[2]

\* The pieces of s between ';'.
RECURSIVE Pieces(_, _)
Pieces(s, piece) ==
    IF Len(s) = 0 THEN <<piece>>
    ELSE IF s[1] = 59 THEN <<piece>> \o Pieces(Tail(s), <<>>)
    ELSE Pieces(Tail(s), Append(piece, s[1]))

\* The values of the attributes whose key sanitizes to key, in key order.
Colliding(as, key) ==
    LET hit == SelectSeq(as, LAMBDA a : stringsMap(a.Key, 1) = key)
    IN  [i \in DOMAIN hit |-> hit[i].Emit]

\* C7: getAttrs returns as many values as names, no name twice, one pair
\* for each sanitized key, and as its value the ';'-separated values of all
\* the attributes whose key sanitizes to it, each once.
C7_OnePairPerKeyNothingDropped ==
    \A k \in DOMAIN encoded :
        LET r == encoded[k] IN
        /\ Len(r.keys) = Len(r.values)
        /\ \A i, j \in DOMAIN r.keys : i # j => r.keys[i] # r.keys[j]
        /\ {r.keys[i] : i \in DOMAIN r.keys} = {stringsMap(attrs[i].Key, 1) : i \in DOMAIN attrs}
        /\ \A i \in DOMAIN r.keys : Pieces(r.values[i], <<>>) = Colliding(attrs, r.keys[i])

\* "a-b", "a.b" and "a_b" all give "a_b", with three values joined.
C7_Witness ==
    \E k \in DOMAIN encoded :
        /\ Len(attrs) = 3 /\ Len(encoded[k].keys) = 1
        /\ encoded[k].keys[1] = <<97, 95, 98>>
        /\ Len(encoded[k].values[1]) = 5

metricAt(p, src) == scopeMetrics(p)[src[1]].Metrics[src[2]]

pointAt(p, src) == metricAt(p, src).Data.DataPoints[src[3]]

IsSum(m) == m.Data.type \in {"Sum[int64]", "Sum[float64]"}

\* "_ratio", "_bytes", "_milliseconds" for the three units, nothing otherwise.
ExpectedUnitSuffix(unit) ==
    IF cfg.withoutUnits THEN <<>>
    ELSE IF unit = "Dimensionless" THEN <<95, 114, 97, 116, 105, 111>>
    ELSE IF unit = "Bytes" THEN <<95, 98, 121, 116, 101, 115>>
    ELSE IF unit = "Milliseconds"
         THEN <<95, 109, 105, 108, 108, 105, 115, 101, 99, 111, 110, 100, 115>>
    ELSE <<>>

\* C8: a record sent for a data point of a Sum is a counter named
\* sanitizeName(name) + unit suffix + "_total" when the Sum is monotonic,
\* and a gauge named sanitizeName(name) + unit suffix when it is not.
C8_SumKindAndName ==
    \A p \in DOMAIN log : \A i \in DOMAIN log[p] :
        LET e == log[p][i] IN
        e.ev = "emit" /\ e.src # NoSrc /\ IsSum(metricAt(p, e.src)) =>
            LET m == metricAt(p, e.src)
                base == sanitizeName(m.Name).s \o ExpectedUnitSuffix(m.Unit)
            IN  IF m.Data.IsMonotonic
                THEN e.rec.kind = "CounterValue"
                     /\ e.rec.name = base \o <<95, 116, 111, 116, 97, 108>>
                ELSE e.rec.kind = "GaugeValue" /\ e.rec.name = base

\* The second data point of a monotonic Sum in milliseconds has been sent.
C8_Witness ==
    \E p \in DOMAIN log : \E i \in DOMAIN log[p] :
        LET e == log[p][i] IN
        /\ e.ev = "emit" /\ e.src # NoSrc /\ e.src[3] = 2
        /\ IsSum(metricAt(p, e.src)) /\ metricAt(p, e.src).Data.IsMonotonic
        /\ metricAt(p, e.src).Unit = "Milliseconds" /\ ~cfg.withoutUnits
        /\ log[p][i - 1].ev = "emit"

StrictlyAscending(bounds) == \A i \in DOMAIN bounds : i > 1 => bounds[i - 1] < bounds[i]

RECURSIVE SumFirst(_, _)
SumFirst(counts, k) == IF k = 0 THEN 0 ELSE counts[k] + SumFirst(counts, k - 1)

\* C9: for a histogram data point with strictly ascending bounds and one
\* more count than bounds, the bucket map of the record sent has one entry
\* for each bound, the sum of the counts up to it, and none for the last
\* count.
C9_CumulativeBuckets ==
    \A p \in DOMAIN log : \A i \in DOMAIN log[p] :
        LET e == log[p][i] IN
        e.ev = "emit" /\ e.src # NoSrc /\ metricAt(p, e.src).Data.type = "Histogram" =>
            LET dp == pointAt(p, e.src) IN
            StrictlyAscending(dp.Bounds) /\ Len(dp.BucketCounts) = Len(dp.Bounds) + 1 =>
                /\ DOMAIN e.rec.buckets = {dp.Bounds[k] : k \in DOMAIN dp.Bounds}
                /\ Cardinality(DOMAIN e.rec.buckets) = Len(dp.Bounds)
                /\ \A k \in DOMAIN dp.Bounds :
                      e.rec.buckets[dp.Bounds[k]] = SumFirst(dp.BucketCounts, k)
                /\ \A j, k \in DOMAIN dp.Bounds :
                      j < k => e.rec.buckets[dp.Bounds[j]] <= e.rec.buckets[dp.Bounds[k]]

\* Bounds [1, 5, 10] with counts [2, 3, 4, 1] were sent as {1: 2, 5: 5, 10: 9}.
C9_Witness ==
    \E p \in DOMAIN log : \E i \in DOMAIN log[p] :
        LET e == log[p][i] IN
        /\ e.ev = "emit" /\ e.src # NoSrc /\ metricAt(p, e.src).Data.type = "Histogram"
        /\ pointAt(p, e.src).Bounds = <<1, 5, 10>>
        /\ pointAt(p, e.src).BucketCounts = <<2, 3, 4, 1>>
        /\ e.rec.buckets = (1 :> 2) @@ (5 :> 5) @@ (10 :> 9)

Translated(m) ==
    m.Data.type \in {"Histogram", "Sum[int64]", "Sum[float64]", "Gauge[int64]", "Gauge[float64]"}

\* <<scope, metric, point>> of every data point of a Sum, Gauge or Histogram
\* metric, in snapshot order.
RECURSIVE PointsFrom(_, _, _, _)
PointsFrom(sm, si, mi, di) ==
    IF si > Len(sm) THEN <<>>
    ELSE IF mi > Len(sm[si].Metrics) THEN PointsFrom(sm, si + 1, 1, 1)
    ELSE IF ~Translated(sm[si].Metrics[mi]) \/ di > Len(sm[si].Metrics[mi].Data.DataPoints)
         THEN PointsFrom(sm, si, mi + 1, 1)
    ELSE <<<<si, mi, di>>>> \o PointsFrom(sm, si, mi, di + 1)

\* The data points the scrape has dealt with: a record sent or a fault reported.
DealtWith(p) ==
    LET evs == SelectSeq(log[p], LAMBDA e : e.src # NoSrc)
    IN  [i \in DOMAIN evs |-> evs[i].src]

\* Short of a panic, a scrape that has returned has dealt with every data
\* point of every Sum, Gauge and Histogram metric once, in snapshot order,
\* and with nothing else.
EveryPointDealtWith ==
    \A p \in DOMAIN pc :
        reader[p].err = "nil" /\ pc[p] = "done" => DealtWith(p) = PointsFrom(scopeMetrics(p), 1, 1, 1)

\* C10: no scrape that got a snapshot is cut short, and when it returns
\* every data point of every Sum, Gauge and Histogram metric has given one
\* record or one reported fault, in snapshot order, and no other metric has
\* given anything.
C10_NeverAbortedEveryPointDealtWith ==
    /\ \A p \in DOMAIN pc : reader[p].err = "nil" => pc[p] # "panic"
    /\ EveryPointDealtWith

====
